---- MODULE Spec2Model ----
(***************************************************************************)
(* A model of the accounts views of django-organizations                   *)
(* (accounts/views.py): login and logout, Account CRUD, AccountUser CRUD   *)
(* and the user profile view, each request handled atomically against the  *)
(* data store and the session of the client that sent it.                  *)
(*                                                                         *)
(* The gates, the resource resolution, the role predicates and the forms   *)
(* live in accounts/mixins.py, accounts/models.py and accounts/forms.py;   *)
(* they are modelled from the specification's description of them.         *)
(***************************************************************************)
EXTENDS Integers, Sequences, FiniteSets, TLC

\* ------------------------------------------------------------- bounds
NumUsers == 2
NumAccounts == 2
NumClients == 1
NumValues == 2
MaxNotices == 2

Anon == 0
Users == 1..NumUsers
Accounts == 1..NumAccounts
Clients == 1..NumClients
Values == 1..NumValues

Roles == {"member", "admin", "owner"}
NoRole == "none"
Methods == {"GET", "POST"}

\* The redirect targets the views name.
DefaultRedirect == "LOGIN_REDIRECT_URL"
NoNext == ""
NextUrls == {NoNext, "/next"}

VARIABLES
    accounts,       \* the ids of the Account rows of the store
    account_name,   \* account id -> the Account's name (the field AccountForm edits)
    account_users,  \* account id -> user id -> role of the AccountUser row, or NoRole
    profile,        \* user id -> the User field UserProfileForm edits
    session,        \* client -> the user the client's session authenticates, or Anon
    notices,        \* client -> number of queued messages not yet rendered
    last            \* the last request handled and its response

vars == <<accounts, account_name, account_users, profile, session, notices, last>>
store == <<accounts, account_name, account_users, profile>>

NoForm == [user |-> 0, role |-> NoRole, account |-> 0, value |-> 0]
NoPhases == <<>>

\* A request and its response. obj, listing and members are what a rendered
\* page holds: the Account of the context, the Account list, the member list.
Response(view, method, client, acct, usr, form, next, resp, url, obj, listing, members, phases) ==
    [view |-> view, method |-> method, client |-> client, account |-> acct,
     user |-> usr, form |-> form, next |-> next, resp |-> resp, url |-> url,
     obj |-> obj, listing |-> listing, members |-> members, phases |-> phases,
     allow_empty |-> TRUE]

NoRequest ==
    Response("none", "GET", 0, 0, 0, NoForm, NoNext, "none", "", 0, {}, {}, NoPhases)

\* ------------------------------------------------ the store's queries
\* The member list of an Account: account.account_users.all().
AccountUsersOf(a) ==
    {<<u, account_users[a][u]>> : u \in {v \in Users : account_users[a][v] /= NoRole}}

RoleOf(a, u) == IF u = Anon \/ a \notin accounts THEN NoRole ELSE account_users[a][u]

is_member(a, u) == RoleOf(a, u) /= NoRole
is_admin(a, u) == RoleOf(a, u) \in {"admin", "owner"}
is_owner(a, u) == RoleOf(a, u) = "owner"

\* ------------------------------------------- gates and the pipeline
\* Whether caller u satisfies a gate on Account a.
GatePasses(gate, a, u) ==
    CASE gate = "none" -> TRUE
      [] gate = "membership" -> is_member(a, u)
      [] gate = "admin" -> is_admin(a, u)
      [] gate = "owner" -> is_owner(a, u)

\* A gate's failure: a redirect to login for an anonymous caller, Forbidden
\* for an authenticated one.
GateFailure(u) == IF u = Anon THEN "RedirectLogin" ELSE "Forbidden"

\* AccountMixin: load the Account of the route, or fail with Not Found.
AccountResolves(a) == a \in accounts

\* AccountUserMixin: load the AccountUser of the route within its Account.
AccountUserResolves(a, tu) == a \in accounts /\ tu \in Users /\ account_users[a][tu] /= NoRole

\* The gate each view class composes with its base view (AccountList and
\* AccountCreate compose none).
\* AccountDetail composed without its gate mixin.
AccountDetailUngated == "none"
AccountDetailGate == "membership"
AccountUpdateGate == "admin"
\* AccountDelete composed with the admin gate.
AccountDeleteByAdmin == "admin"
AccountDeleteGate == "owner"
AccountUserListGate == "membership"
\* AccountUserDetail composed without its gate mixin.
AccountUserDetailUngated == "none"
AccountUserDetailGate == "admin"
AccountUserUpdateGate == "admin"
AccountUserCreateGate == "admin"
\* AccountUserDelete composed with the membership gate.
AccountUserDeleteByMember == "membership"
AccountUserDeleteGate == "admin"

\* The views whose base resolves an AccountUser (AccountUserMixin).
AccountUserViews == {"AccountUserDetail", "AccountUserUpdate", "AccountUserDelete"}

\* One request through a gated view: resolve the target, evaluate the gate,
\* and only then run the body. resp = "pass" hands the request to the body.
Dispatch(view, gate, a, tu, u) ==
    IF ~AccountResolves(a)
    THEN [resp |-> "NotFound", phases |-> <<"resolve">>]
    ELSE IF view \in AccountUserViews /\ ~AccountUserResolves(a, tu)
    THEN [resp |-> "NotFound", phases |-> <<"resolve">>]
    ELSE IF ~GatePasses(gate, a, u)
    THEN [resp |-> GateFailure(u), phases |-> <<"resolve", "gate">>]
    ELSE [resp |-> "pass", phases |-> <<"resolve", "gate", "body">>]

\* A response that renders no page and writes nothing.
Refuse(view, method, c, a, tu, form, d) ==
    /\ last' = Response(view, method, c, a, tu, form, NoNext, d.resp, "", 0, {}, {}, d.phases)
    /\ UNCHANGED <<accounts, account_name, account_users, profile, session, notices>>

\* A rendered page shows the client's queued messages, which empties the queue.
Rendered(c) == notices' = [notices EXCEPT ![c] = 0]

\* ------------------------------------------------------------ Init
\* A store as the program leaves it: every Account row has exactly one owner
\* (its creator), and an absent Account has no AccountUser rows.
InitStore ==
    /\ accounts \in SUBSET Accounts
    /\ account_name = [a \in Accounts |-> 1]
    /\ account_users \in [Accounts -> [Users -> {NoRole, "member", "owner"}]]
    /\ \A a \in Accounts :
         IF a \in accounts
         THEN Cardinality({u \in Users : account_users[a][u] = "owner"}) = 1
         ELSE \A u \in Users : account_users[a][u] = NoRole
    /\ profile = [u \in Users |-> 1]

\* Nobody is logged in and no request has been handled.
Init ==
    /\ InitStore
    /\ session = [c \in Clients |-> Anon]
    /\ notices = [c \in Clients |-> 0]
    /\ last = NoRequest

\* ---------------------------------------------------- login, logout
\* The redirect URL taken from the settings whatever the request supplies.
LoginRedirectIgnoresNext(next) == DefaultRedirect

\* LoginView.get
LoginRedirectUrl(next) == IF next = NoNext THEN DefaultRedirect ELSE next

LoginGet(c, next) ==
    /\ IF session[c] /= Anon
       THEN /\ last' = Response("Login", "GET", c, 0, 0, NoForm, next, "Redirect",
                                LoginRedirectUrl(next), 0, {}, {}, NoPhases)
            /\ UNCHANGED notices
       ELSE /\ last' = Response("Login", "GET", c, 0, 0, NoForm, next, "OK", "",
                                0, {}, {}, NoPhases)
            /\ Rendered(c)
    /\ UNCHANGED <<accounts, account_name, account_users, profile, session>>

\* LoginView.post: the framework's login view with LoginForm. The form holds
\* the user name (form.user) and whether the password matches (form.value = 1).
LoginPost(c, form, next) ==
    /\ IF form.value = 1
       THEN /\ session' = [session EXCEPT ![c] = form.user]
            /\ last' = Response("Login", "POST", c, 0, 0, form, next, "Redirect",
                                LoginRedirectUrl(next), 0, {}, {}, NoPhases)
            /\ UNCHANGED notices
       ELSE /\ last' = Response("Login", "POST", c, 0, 0, form, next, "FormInvalid", "",
                                0, {}, {}, NoPhases)
            /\ Rendered(c)
            /\ UNCHANGED session
    /\ UNCHANGED <<accounts, account_name, account_users, profile>>

\* LogoutView.get: logout(request), one queued message, a redirect to login.
LogoutGet(c, method) ==
    /\ notices[c] < MaxNotices
    /\ session' = [session EXCEPT ![c] = Anon]
    /\ notices' = [notices EXCEPT ![c] = @ + 1]
    /\ last' = Response("Logout", method, c, 0, 0, NoForm, NoNext, "Redirect", "login",
                        0, {}, {}, NoPhases)
    /\ UNCHANGED <<accounts, account_name, account_users, profile>>

\* A post handler that answers with the redirect and does not log out.
LogoutPostKeepsSession(c) ==
    /\ notices[c] < MaxNotices
    /\ notices' = [notices EXCEPT ![c] = @ + 1]
    /\ last' = Response("Logout", "POST", c, 0, 0, NoForm, NoNext, "Redirect", "login",
                        0, {}, {}, NoPhases)
    /\ UNCHANGED <<accounts, account_name, account_users, profile, session>>

\* LogoutView.post
LogoutPost(c) == LogoutGet(c, "POST")

\* ------------------------------------------------------ replies
Page(view, method, c, a, tu, form, obj, listing, members, phases) ==
    /\ last' = Response(view, method, c, a, tu, form, NoNext, "OK", "", obj, listing,
                        members, phases)
    /\ Rendered(c)

Invalid(view, method, c, a, tu, form, phases) ==
    /\ last' = Response(view, method, c, a, tu, form, NoNext, "FormInvalid", "", 0, {}, {},
                        phases)
    /\ Rendered(c)

Redirect(view, method, c, a, tu, form, url, phases) ==
    /\ last' = Response(view, method, c, a, tu, form, NoNext, "Redirect", url, 0, {}, {},
                        phases)
    /\ UNCHANGED notices

\* ------------------------------------------------- Account views
\* AccountList = BaseAccountList: a ListView over every Account, no gate.
AccountList(c) ==
    /\ Page("AccountList", "GET", c, 0, 0, NoForm, 0, accounts, {}, <<"body">>)
    /\ UNCHANGED <<accounts, account_name, account_users, profile, session>>

\* AccountCreate = BaseAccountCreate(View): the class defines form_valid and
\* get_success_url but no get or post handler, and its base View has none, so
\* View.dispatch answers every method with Method Not Allowed.
AccountCreate(c, method) ==
    /\ last' = Response("AccountCreate", method, c, 0, 0, NoForm, NoNext, "MethodNotAllowed",
                        "", 0, {}, {}, NoPhases)
    /\ UNCHANGED <<accounts, account_name, account_users, profile, session, notices>>

\* BaseAccountDetail.get_context_data: the Account and its member list.
BaseAccountDetail(c, a, phases) ==
    /\ Page("AccountDetail", "GET", c, a, 0, NoForm, a, {}, AccountUsersOf(a), phases)
    /\ UNCHANGED <<accounts, account_name, account_users, profile, session>>

AccountDetail(c, a) ==
    LET d == Dispatch("AccountDetail", AccountDetailGate, a, 0, session[c]) IN
    IF d.resp /= "pass"
    THEN Refuse("AccountDetail", "GET", c, a, 0, NoForm, d)
    ELSE BaseAccountDetail(c, a, d.phases)

\* BaseAccountUpdate: UpdateView with AccountForm on the resolved Account.
BaseAccountUpdate(c, a, method, form, phases) ==
    /\ IF method = "GET"
       THEN /\ Page("AccountUpdate", method, c, a, 0, form, a, {}, {}, phases)
            /\ UNCHANGED account_name
       ELSE /\ account_name' = [account_name EXCEPT ![a] = form.value]
            /\ Redirect("AccountUpdate", method, c, a, 0, form, "account_detail", phases)
    /\ UNCHANGED <<accounts, account_users, profile, session>>

AccountUpdate(c, a, method, form) ==
    LET d == Dispatch("AccountUpdate", AccountUpdateGate, a, 0, session[c]) IN
    IF d.resp /= "pass"
    THEN Refuse("AccountUpdate", method, c, a, 0, form, d)
    ELSE BaseAccountUpdate(c, a, method, form, d.phases)

\* BaseAccountDelete: DeleteView on the resolved Account; the delete cascades
\* to the Account's AccountUser rows; success redirects to the Account list.
BaseAccountDelete(c, a, method, phases) ==
    /\ IF method = "GET"
       THEN /\ Page("AccountDelete", method, c, a, 0, NoForm, a, {}, {}, phases)
            /\ UNCHANGED <<accounts, account_name, account_users>>
       ELSE /\ accounts' = accounts \ {a}
            /\ account_name' = [account_name EXCEPT ![a] = 1]
            /\ account_users' = [account_users EXCEPT ![a] = [u \in Users |-> NoRole]]
            /\ Redirect("AccountDelete", method, c, a, 0, NoForm, "account_list", phases)
    /\ UNCHANGED <<profile, session>>

AccountDelete(c, a, method) ==
    LET d == Dispatch("AccountDelete", AccountDeleteGate, a, 0, session[c]) IN
    IF d.resp /= "pass"
    THEN Refuse("AccountDelete", method, c, a, 0, NoForm, d)
    ELSE BaseAccountDelete(c, a, method, d.phases)

\* --------------------------------------------- AccountUser views
\* What raising Http404(_(u"...") % ...) produces in BaseAccountUserList.get:
\* the module imports no name _, so building the exception's message raises
\* NameError before Http404 exists, and the request ends in a server error.
EmptyListError == "ServerError"

\* BaseAccountUserList.get. allow_empty is the view's attribute (the list
\* view's default is True; a subclass or the route's as_view() sets it).
BaseAccountUserListGet(view, c, a, ae, phases) ==
    /\ IF ~ae /\ Cardinality(AccountUsersOf(a)) = 0
       THEN /\ last' = [Response(view, "GET", c, a, 0, NoForm, NoNext, EmptyListError, "",
                                 0, {}, {}, phases) EXCEPT !.allow_empty = ae]
            /\ UNCHANGED notices
       ELSE /\ last' = [Response(view, "GET", c, a, 0, NoForm, NoNext, "OK", "",
                                 a, {}, AccountUsersOf(a), phases) EXCEPT !.allow_empty = ae]
            /\ Rendered(c)
    /\ UNCHANGED <<accounts, account_name, account_users, profile, session>>

\* BaseAccountUserList routed as it is defined: AccountMixin and ListView, no gate.
BaseAccountUserList(c, a, ae) ==
    IF ~AccountResolves(a)
    THEN Refuse("BaseAccountUserList", "GET", c, a, 0, NoForm,
                [resp |-> "NotFound", phases |-> <<"resolve">>])
    ELSE BaseAccountUserListGet("BaseAccountUserList", c, a, ae, <<"resolve", "body">>)

AccountUserList(c, a, ae) ==
    LET d == Dispatch("AccountUserList", AccountUserListGate, a, 0, session[c]) IN
    IF d.resp /= "pass"
    THEN Refuse("AccountUserList", "GET", c, a, 0, NoForm, d)
    ELSE BaseAccountUserListGet("AccountUserList", c, a, ae, d.phases)

\* BaseAccountUserDetail: DetailView on the resolved AccountUser.
BaseAccountUserDetail(c, a, tu, phases) ==
    /\ Page("AccountUserDetail", "GET", c, a, tu, NoForm, a, {},
            {<<tu, account_users[a][tu]>>}, phases)
    /\ UNCHANGED <<accounts, account_name, account_users, profile, session>>

AccountUserDetail(c, a, tu) ==
    LET d == Dispatch("AccountUserDetail", AccountUserDetailGate, a, tu, session[c]) IN
    IF d.resp /= "pass"
    THEN Refuse("AccountUserDetail", "GET", c, a, tu, NoForm, d)
    ELSE BaseAccountUserDetail(c, a, tu, d.phases)

\* BaseAccountUserCreate.get_form_kwargs with get/post: the form is handed
\* self.account, the Account of the route, whatever the form body carries.
\* The form handed the account id of the form body.
FormKwargsFromBody(routeAccount, form) == form.account

FormKwargsAccount(routeAccount, form) == routeAccount

\* AccountUserAddForm's validation: the (account, user) pair is not taken.
AccountUserAddFormValid(target, form) ==
    target \in accounts /\ account_users[target][form.user] = NoRole

\* BaseAccountUserCreate: CreateView with AccountUserAddForm.
BaseAccountUserCreate(c, a, method, form, phases) ==
    LET target == FormKwargsAccount(a, form) IN
    /\ IF method = "GET"
       THEN /\ Page("AccountUserCreate", method, c, a, 0, form, a, {}, {}, phases)
            /\ UNCHANGED account_users
       ELSE IF ~AccountUserAddFormValid(target, form)
       THEN /\ Invalid("AccountUserCreate", method, c, a, 0, form, phases)
            /\ UNCHANGED account_users
       ELSE /\ account_users' = [account_users EXCEPT ![target][form.user] = form.role]
            /\ Redirect("AccountUserCreate", method, c, a, 0, form, "accountuser_detail",
                        phases)
    /\ UNCHANGED <<accounts, account_name, profile, session>>

AccountUserCreate(c, a, method, form) ==
    LET d == Dispatch("AccountUserCreate", AccountUserCreateGate, a, 0, session[c]) IN
    IF d.resp /= "pass"
    THEN Refuse("AccountUserCreate", method, c, a, 0, form, d)
    ELSE BaseAccountUserCreate(c, a, method, form, d.phases)

\* BaseAccountUserUpdate: UpdateView with AccountUserForm on the AccountUser.
BaseAccountUserUpdate(c, a, tu, method, form, phases) ==
    /\ IF method = "GET"
       THEN /\ Page("AccountUserUpdate", method, c, a, tu, form, a, {},
                    {<<tu, account_users[a][tu]>>}, phases)
            /\ UNCHANGED account_users
       ELSE /\ account_users' = [account_users EXCEPT ![a][tu] = form.role]
            /\ Redirect("AccountUserUpdate", method, c, a, tu, form, "accountuser_detail",
                        phases)
    /\ UNCHANGED <<accounts, account_name, profile, session>>

AccountUserUpdate(c, a, tu, method, form) ==
    LET d == Dispatch("AccountUserUpdate", AccountUserUpdateGate, a, tu, session[c]) IN
    IF d.resp /= "pass"
    THEN Refuse("AccountUserUpdate", method, c, a, tu, form, d)
    ELSE BaseAccountUserUpdate(c, a, tu, method, form, d.phases)

\* BaseAccountUserDelete: DeleteView on the AccountUser; success redirects to
\* the member list.
BaseAccountUserDelete(c, a, tu, method, phases) ==
    /\ IF method = "GET"
       THEN /\ Page("AccountUserDelete", method, c, a, tu, NoForm, a, {},
                    {<<tu, account_users[a][tu]>>}, phases)
            /\ UNCHANGED account_users
       ELSE /\ account_users' = [account_users EXCEPT ![a][tu] = NoRole]
            /\ Redirect("AccountUserDelete", method, c, a, tu, NoForm, "accountuser_list",
                        phases)
    /\ UNCHANGED <<accounts, account_name, profile, session>>

AccountUserDelete(c, a, tu, method) ==
    LET d == Dispatch("AccountUserDelete", AccountUserDeleteGate, a, tu, session[c]) IN
    IF d.resp /= "pass"
    THEN Refuse("AccountUserDelete", method, c, a, tu, NoForm, d)
    ELSE BaseAccountUserDelete(c, a, tu, method, d.phases)

\* ------------------------------------------------- the user profile
\* A get_object that looks the User up by the id the form body carries.
UserProfileObjectFromForm(requestUser, form) ==
    IF form.user = 0 THEN requestUser ELSE form.user

\* UserProfileView.get_object: the requesting identity, whatever the form carries.
UserProfileGetObject(requestUser, form) == requestUser

\* UserProfileView: UpdateView with UserProfileForm on get_object(). An
\* anonymous caller's request.user is no User row, and building the model
\* form on it fails.
UserProfileView(c, method, form) ==
    LET target == UserProfileGetObject(session[c], form) IN
    /\ IF target = Anon
       THEN /\ last' = Response("UserProfile", method, c, 0, 0, form, NoNext, "ServerError",
                                "", 0, {}, {}, NoPhases)
            /\ UNCHANGED <<profile, notices>>
       ELSE IF method = "GET"
       THEN /\ Page("UserProfile", method, c, 0, target, form, 0, {}, {}, NoPhases)
            /\ UNCHANGED profile
       ELSE /\ profile' = [profile EXCEPT ![target] = form.value]
            /\ Redirect("UserProfile", method, c, 0, target, form, "user_profile", NoPhases)
    /\ UNCHANGED <<accounts, account_name, account_users, session>>

\* ------------------------------------------------------- requests
ValueForms == {[NoForm EXCEPT !.value = v] : v \in Values}
RoleForms == {[NoForm EXCEPT !.role = r] : r \in Roles}
AddForms ==
    {[NoForm EXCEPT !.user = u, !.role = r, !.account = b] :
        u \in Users, r \in {"member", "admin"}, b \in Accounts}
ProfileForms == {[NoForm EXCEPT !.user = u, !.value = v] : u \in Users, v \in Values}
\* A GET carries no form body.
FormsFor(method, forms) == IF method = "GET" THEN {NoForm} ELSE forms

LoginForms == {[NoForm EXCEPT !.user = u, !.value = ok] : u \in Users, ok \in {0, 1}}

\* The requests to the login, logout and profile views.
NextAuth ==
    \/ \E c \in Clients, next \in NextUrls : LoginGet(c, next)
    \/ \E c \in Clients, form \in LoginForms, next \in NextUrls : LoginPost(c, form, next)
    \/ \E c \in Clients : LogoutGet(c, "GET")
    \/ \E c \in Clients : LogoutPost(c)
    \/ \E c \in Clients, m \in Methods :
          \E form \in FormsFor(m, ProfileForms) : UserProfileView(c, m, form)

\* The requests to the Account and AccountUser views.
NextAccounts ==
    \/ \E c \in Clients : AccountList(c)
    \/ \E c \in Clients, m \in Methods : AccountCreate(c, m)
    \/ \E c \in Clients, a \in Accounts : AccountDetail(c, a)
    \/ \E c \in Clients, a \in Accounts, m \in Methods :
          \E form \in FormsFor(m, ValueForms) :
          AccountUpdate(c, a, m, form)
    \/ \E c \in Clients, a \in Accounts, m \in Methods : AccountDelete(c, a, m)
    \/ \E c \in Clients, a \in Accounts, ae \in BOOLEAN : BaseAccountUserList(c, a, ae)
    \/ \E c \in Clients, a \in Accounts, ae \in BOOLEAN : AccountUserList(c, a, ae)
    \/ \E c \in Clients, a \in Accounts, tu \in Users : AccountUserDetail(c, a, tu)
    \/ \E c \in Clients, a \in Accounts, m \in Methods :
          \E form \in FormsFor(m, AddForms) :
          AccountUserCreate(c, a, m, form)
    \/ \E c \in Clients, a \in Accounts, tu \in Users, m \in Methods :
          AccountUserDelete(c, a, tu, m)
    \/ \E c \in Clients, a \in Accounts, tu \in Users, m \in Methods :
          \E form \in FormsFor(m, RoleForms) :
          AccountUserUpdate(c, a, tu, m, form)

Next == NextAuth \/ NextAccounts

\* Every request, from an empty session table.
Spec == Init /\ [][Next]_vars

\* The login, logout and profile views, over a store without Accounts.
InitAuth ==
    /\ InitStore
    /\ accounts = {}
    /\ session = [c \in Clients |-> Anon]
    /\ notices = [c \in Clients |-> 0]
    /\ last = NoRequest

SpecAuth == InitAuth /\ [][NextAuth]_vars

\* The Account and AccountUser views, from any session table login and logout
\* leave behind.
InitAccounts ==
    /\ InitStore
    /\ session \in [Clients -> Users \cup {Anon}]
    /\ notices = [c \in Clients |-> 0]
    /\ last = NoRequest

SpecAccounts == InitAccounts /\ [][NextAccounts]_vars

\* ----------------------------------------------------- properties
\* The caller of the request a step handles, and the caller's role on the
\* request's Account, both as they were when the request arrived.
CallerOfStep == session[last'.client]
RoleAtRequest == RoleOf(last'.account, CallerOfStep)

\* C1: a caller with no AccountUser record for Account A gets Forbidden (a
\* redirect to login when anonymous) from A's detail route, and neither A nor
\* its member list, whatever the caller's role on another Account.
C1_NonMemberDetailForbidden ==
    [][(/\ last'.view = "AccountDetail"
        /\ last'.account \in accounts
        /\ RoleAtRequest = NoRole)
       => (/\ last'.resp = (IF CallerOfStep = Anon THEN "RedirectLogin" ELSE "Forbidden")
           /\ last'.obj = 0
           /\ last'.members = {}
           /\ UNCHANGED store)]_vars

\* C1's case: a non-member of A who owns another Account asks for A's detail.
C1_Witness ==
    /\ last.view = "AccountDetail"
    /\ last.account \in accounts
    /\ RoleOf(last.account, session[last.client]) = NoRole
    /\ \E b \in accounts \ {last.account} : RoleOf(b, session[last.client]) = "owner"
    /\ last.resp = "Forbidden"

\* The routes the specification gates with AdminRequired.
AdminRoutes ==
    {"AccountUpdate", "AccountUserCreate", "AccountUserDetail", "AccountUserUpdate",
     "AccountUserDelete"}

\* The target of the request a step handles exists when the request arrives.
TargetResolves ==
    /\ last'.account \in accounts
    /\ last'.view \in AccountUserViews => AccountUserResolves(last'.account, last'.user)

\* C2: a caller whose role on Account A is member gets Forbidden from A's
\* update route and from every AccountUser create, detail, update and delete
\* route of A, and the request leaves the Account and its AccountUser rows
\* as they were.
C2_MemberForbiddenOnAdminRoutes ==
    [][(/\ last'.view \in AdminRoutes
        /\ TargetResolves
        /\ RoleAtRequest = "member")
       => (/\ last'.resp = "Forbidden"
           /\ UNCHANGED store)]_vars

\* C2's case: a member of A posts a delete of an AccountUser of A.
C2_Witness ==
    /\ last.view = "AccountUserDelete"
    /\ last.method = "POST"
    /\ RoleOf(last.account, session[last.client]) = "member"
    /\ AccountUserResolves(last.account, last.user)
    /\ last.user /= session[last.client]
    /\ last.resp = "Forbidden"

\* C3: an Account leaves the store only in a delete request whose caller is
\* owner of it when the request arrives (so a delete request by anyone else
\* leaves it in the store), an Account that has left the store stays out of
\* it, and an Account list result holds exactly the Accounts of the store.
C3_OnlyOwnerDeletes ==
    [][/\ \A a \in accounts \ accounts' :
            /\ last'.view = "AccountDelete"
            /\ last'.method = "POST"
            /\ last'.account = a
            /\ is_owner(a, CallerOfStep)
       /\ \A a \in Accounts \ accounts : a \notin accounts'
       /\ last'.view = "AccountList" => last'.listing = accounts']_vars

\* C3's case: an owner's delete request has removed the Account.
C3_Witness ==
    /\ last.view = "AccountDelete"
    /\ last.method = "POST"
    /\ last.resp = "Redirect"
    /\ last.url = "account_list"
    /\ last.account \notin accounts
    /\ \A u \in Users : account_users[last.account][u] = NoRole

\* C4: a successful AccountUser create on the route of Account A makes one
\* new AccountUser row, of A, whatever account id the form body carries, and
\* changes no other AccountUser row.
C4_CreateBindsRouteAccount ==
    [][(/\ last'.view = "AccountUserCreate"
        /\ last'.method = "POST"
        /\ last'.resp = "Redirect")
       => (/\ account_users[last'.account][last'.form.user] = NoRole
           /\ account_users'[last'.account][last'.form.user] = last'.form.role
           /\ \A b \in Accounts, u \in Users :
                <<b, u>> /= <<last'.account, last'.form.user>>
                => account_users'[b][u] = account_users[b][u]
           /\ UNCHANGED <<accounts, account_name, profile>>)]_vars

\* C4's case: a create succeeded whose form body named another Account.
C4_Witness ==
    /\ last.view = "AccountUserCreate"
    /\ last.method = "POST"
    /\ last.resp = "Redirect"
    /\ last.form.account /= last.account
    /\ last.form.account \in accounts
    /\ account_users[last.account][last.form.user] = last.form.role
    /\ account_users[last.form.account][last.form.user] = NoRole

\* The views that answer with BaseAccountUserList.get.
MemberListViews == {"AccountUserList", "BaseAccountUserList"}

\* C5: the member list of an Account with no AccountUser rows is Not Found
\* unless allow_empty is set, and otherwise the list returned is exactly the
\* AccountUser rows of that Account.
C5_EmptyMemberListNotFound ==
    (/\ last.view \in MemberListViews
     /\ last.account \in accounts
     /\ "body" \in {last.phases[i] : i \in DOMAIN last.phases})
    => IF ~last.allow_empty /\ AccountUsersOf(last.account) = {}
       THEN last.resp = "NotFound"
       ELSE last.resp = "OK" /\ last.members = AccountUsersOf(last.account)

\* C9: every Account of the store has an AccountUser with role owner.
C9_EveryAccountHasOwner ==
    \A a \in accounts : \E u \in Users : account_users[a][u] = "owner"

\* The gate the specification's route table gives each gated route.
RequiredPolicy(view) ==
    CASE view \in {"AccountDetail", "AccountUserList"} -> "membership"
      [] view = "AccountDelete" -> "owner"
      [] view \in AdminRoutes -> "admin"

GatedRoutes == {"AccountDetail", "AccountUserList", "AccountDelete"} \cup AdminRoutes

PhaseSet(r) == {r.phases[i] : i \in DOMAIN r.phases}

\* C10: on every gated route a request runs resolution, then the gate, then
\* the body: an unknown target is Not Found and its gate is never evaluated,
\* and the body runs (reads or writes the store) only for a request that
\* passes the route's gate.
C10_ResolveThenGateThenBody ==
    [][last'.view \in GatedRoutes
       => (/\ last'.phases \in {<<"resolve">>, <<"resolve", "gate">>,
                                <<"resolve", "gate", "body">>}
           /\ ~TargetResolves => last'.resp = "NotFound" /\ "gate" \notin PhaseSet(last')
           /\ TargetResolves => "gate" \in PhaseSet(last')
           /\ "body" \in PhaseSet(last')
              => TargetResolves
                 /\ GatePasses(RequiredPolicy(last'.view), last'.account, CallerOfStep)
           /\ "body" \notin PhaseSet(last')
              => /\ UNCHANGED store
                 /\ last'.resp \in {"NotFound", "Forbidden", "RedirectLogin"}
                 /\ last'.obj = 0 /\ last'.listing = {} /\ last'.members = {})]_vars

\* C10's cases: an unknown AccountUser asked for by a caller the gate would
\* refuse, and a body that ran behind its gate.
C10_Witness ==
    /\ last.view = "AccountUserUpdate"
    /\ last.account \in accounts
    /\ ~AccountUserResolves(last.account, last.user)
    /\ ~is_admin(last.account, session[last.client])
    /\ last.resp = "NotFound"
    /\ last.phases = <<"resolve">>

\* C6: a profile request changes only the User row of the identity that sent
\* it (so posts by two identities, in any order, each leave the other's row
\* alone), and the other views leave every User row alone.
C6_ProfileEditsOwnRecordOnly ==
    [][/\ last'.view = "UserProfile"
          => \A v \in Users : v /= CallerOfStep => profile'[v] = profile[v]
       /\ last'.view /= "UserProfile" => profile' = profile]_vars

\* C6's case: u's post, carrying v's id, changed u's row after v had changed
\* v's own, and v's row kept v's value.
C6_Witness ==
    /\ last.view = "UserProfile"
    /\ last.method = "POST"
    /\ last.resp = "Redirect"
    /\ session[last.client] \in Users
    /\ last.form.user /= session[last.client]
    /\ profile[session[last.client]] = last.form.value
    /\ profile[last.form.user] /= last.form.value
    /\ profile[last.form.user] /= 1

\* C7: a logout request, by GET or by POST and from any session state, ends
\* with the caller unauthenticated and a redirect to the login view, touches
\* no other session and no row of the store, and a logout by a caller already
\* logged out leaves the session table as it was.
C7_LogoutUnconditional ==
    [][last'.view = "Logout"
       => (/\ last'.method \in Methods
           /\ session'[last'.client] = Anon
           /\ \A c \in Clients \ {last'.client} : session'[c] = session[c]
           /\ last'.resp = "Redirect"
           /\ last'.url = "login"
           /\ session[last'.client] = Anon => session' = session
           /\ UNCHANGED store)]_vars

\* C7's case: a second logout, by POST, of a client that was logged out by
\* the logout before it.
C7_Witness ==
    /\ last.view = "Logout"
    /\ last.method = "POST"
    /\ notices[last.client] = 2
    /\ session[last.client] = Anon
    /\ last.resp = "Redirect"

\* C8: GET on the login route by an authenticated caller redirects to the
\* URL the request supplies, or to the default when it supplies none, renders
\* no form, and leaves the sessions as they were.
C8_AuthenticatedLoginGetRedirects ==
    [][(/\ last'.view = "Login"
        /\ last'.method = "GET"
        /\ CallerOfStep /= Anon)
       => (/\ last'.resp = "Redirect"
           /\ last'.url = (IF last'.next = NoNext THEN "LOGIN_REDIRECT_URL" ELSE last'.next)
           /\ session' = session
           /\ notices' = notices
           /\ UNCHANGED store)]_vars

\* C8's case: an authenticated caller's GET with a next URL.
C8_Witness ==
    /\ last.view = "Login"
    /\ last.method = "GET"
    /\ session[last.client] /= Anon
    /\ last.next = "/next"
    /\ last.resp = "Redirect"
    /\ last.url = "/next"

====
